---- MODULE Spec2Model ----
(***************************************************************************)
(* Model of json_runner.py: the fenced-block extractor _extract_json and   *)
(* the extract / parse / validate / retry loop ask_llm_for_json, together  *)
(* with the library behaviour the loop depends on (str.strip, re.search,   *)
(* json.loads, pydantic's model_validate for QAResponse).                  *)
(*                                                                         *)
(* Texts are sequences of characters, each character a string.  Positions inside the     *)
(* model are 1-based (TLA+ sequences); positions reported in diagnostics   *)
(* are 0-based character offsets, as Python reports them.                  *)
(***************************************************************************)
EXTENDS Integers, Sequences, FiniteSets, TLC

VARIABLES
    prompt,          \* ask_llm_for_json argument: the caller's prompt
    model,           \* ask_llm_for_json argument: the model identifier
    max_retries,     \* ask_llm_for_json argument: the attempt budget
    current_prompt,  \* local: the working prompt
    last_error,      \* local: description of the latest failed attempt
    attempt,         \* local: loop index of 'for attempt in range(max_retries)'
    raw,             \* local: text returned by call_llm
    json_str,        \* local: _extract_json(raw)
    pc,              \* position of control inside ask_llm_for_json
    outcome,         \* how the call ended: nothing yet, a return or a raise
    calls,           \* history: every call_llm invocation and what it produced
    text,            \* extractor harness: the input text
    once,            \* extractor harness: _extract_json(text)
    twice,           \* extractor harness: _extract_json(once)
    xpc,             \* extractor harness: position
    res              \* concurrent callers: the frame of each running call

vars == <<prompt, model, max_retries, current_prompt, last_error, attempt,
          raw, json_str, pc, outcome, calls, text, once, twice, xpc, res>>

loopVars == <<prompt, model, max_retries, current_prompt, last_error, attempt,
              raw, json_str, pc, outcome, calls>>

harnessVars == <<text, once, twice, xpc>>

(***************************************************************************)
(* Bounds                                                                  *)
(***************************************************************************)
MaxBudget == 3      \* largest max_retries explored
MaxPieces == 6      \* extractor inputs are concatenations of at most this many pieces
MaxConcBudget == 2  \* largest max_retries of a caller running beside another

(***************************************************************************)
(* Text helpers                                                            *)
(***************************************************************************)
Min(S) == CHOOSE x \in S : \A y \in S : x <= y
Max(S) == CHOOSE x \in S : \A y \in S : x >= y

\* the backtick character (written as a name: the character itself cannot
\* appear in a string of this module)
Tick == "tick"

\* characters Python's str.strip() and the regex class \s both treat as whitespace
Whitespace == {" ", "\n", "\t", "\r"}

IsSpace(c) == c \in Whitespace

\* t[a..b] as a sequence (empty when b < a)
Slice(t, a, b) == IF b < a THEN <<>> ELSE SubSeq(t, a, b)

\* literal lit occurs in t starting at position s
LitAt(t, s, lit) ==
    /\ s >= 1
    /\ s + Len(lit) - 1 <= Len(t)
    /\ \A i \in 1..Len(lit) : t[s + i - 1] = lit[i]

\* Python's substring test 'lit in t'
Contains(t, lit) == \E s \in 1..Len(t) : LitAt(t, s, lit)

\* number of consecutive whitespace characters of t starting at position p
WsRun(t, p) ==
    LET stops == {q \in p..Len(t) : ~IsSpace(t[q])}
    IN  IF stops = {} THEN (IF p > Len(t) THEN 0 ELSE Len(t) - p + 1)
        ELSE Min(stops) - p

\* number of consecutive whitespace characters of t ending at position p
WsRunBack(t, p) ==
    LET stops == {q \in 1..p : ~IsSpace(t[q])}
    IN  IF stops = {} THEN (IF p < 1 THEN 0 ELSE p)
        ELSE p - Max(stops)

\* str.strip()
Strip(t) ==
    LET lead == WsRun(t, 1)
    IN  IF lead = Len(t) THEN <<>>
        ELSE Slice(t, 1 + lead, Len(t) - WsRunBack(t, Len(t)))

(***************************************************************************)
(* The two regular expressions of _extract_json.  Both have the shape      *)
(*   OPEN  ws-run  GROUP  ws-run  FENCE                                    *)
(* where OPEN is the three backticks followed by json (first pattern) or   *)
(* the three backticks alone (second pattern), GROUP is a lazy run of any  *)
(* characters, and the ws-runs are greedy runs of whitespace.  re.search   *)
(* tries start positions left to right; at one start position the leading *)
(* ws-run takes the longest run first and backtracks to shorter ones, the  *)
(* group takes the shortest length first, the trailing ws-run is greedy.   *)
(***************************************************************************)
Fence == <<Tick, Tick, Tick>>
JsonFence == <<Tick, Tick, Tick, "j", "s", "o", "n">>

NoMatch == [found |-> FALSE, group |-> <<>>]

\* the closing part (ws-run, then the fence) matches at position p
CloseAt(t, p) == \E m \in 0..WsRun(t, p) : LitAt(t, p + m, Fence)

\* lengths g of the group, starting at b, after which the closing part matches
GroupLens(t, b) == {g \in 0..(Len(t) - b + 1) : CloseAt(t, b + g)}

\* MatchAt with a greedy group (the pattern written with * in place of *?)
MatchAtGreedy(t, s, open) ==
    IF ~LitAt(t, s, open) THEN NoMatch
    ELSE LET a  == s + Len(open)
             ks == {k \in 0..WsRun(t, a) : GroupLens(t, a + k) # {}}
         IN  IF ks = {} THEN NoMatch
             ELSE LET b == a + Max(ks)
                      g == Max(GroupLens(t, b))
                  IN  [found |-> TRUE, group |-> Slice(t, b, b + g - 1)]

\* the match of the pattern anchored at start position s
MatchAt(t, s, open) ==
    IF ~LitAt(t, s, open) THEN NoMatch
    ELSE LET a  == s + Len(open)
             ks == {k \in 0..WsRun(t, a) : GroupLens(t, a + k) # {}}
         IN  IF ks = {} THEN NoMatch
             ELSE LET b == a + Max(ks)
                      g == Min(GroupLens(t, b))
                  IN  [found |-> TRUE, group |-> Slice(t, b, b + g - 1)]

\* re.search(pattern, t): the match at the leftmost start position that has one
ReSearch(t, open) ==
    LET starts == {s \in 1..Len(t) : MatchAt(t, s, open).found}
    IN  IF starts = {} THEN NoMatch ELSE MatchAt(t, Min(starts), open)

(***************************************************************************)
(* _extract_json                                                           *)
(***************************************************************************)
\* _extract_json without the strip of line 34
ExtractJsonNoStrip(txt) ==
    LET t  == txt
        m1 == ReSearch(t, JsonFence)
        m2 == ReSearch(t, Fence)
    IN  IF Contains(t, JsonFence) /\ m1.found THEN Strip(m1.group)
        ELSE IF Contains(t, Fence) /\ m2.found THEN Strip(m2.group)
        ELSE t

\* _extract_json with the two branches in the opposite order
ExtractJsonPlainFirst(txt) ==
    LET t  == Strip(txt)
        m1 == ReSearch(t, JsonFence)
        m2 == ReSearch(t, Fence)
    IN  IF Contains(t, Fence) /\ m2.found THEN Strip(m2.group)
        ELSE IF Contains(t, JsonFence) /\ m1.found THEN Strip(m1.group)
        ELSE t

ExtractJson(txt) ==
    LET t  == Strip(txt)
        m1 == ReSearch(t, JsonFence)
        m2 == ReSearch(t, Fence)
    IN  IF Contains(t, JsonFence) /\ m1.found THEN Strip(m1.group)
        ELSE IF Contains(t, Fence) /\ m2.found THEN Strip(m2.group)
        ELSE t

(***************************************************************************)
(* json.loads (CPython json.decoder / _json scanner).  Indices are 0-based *)
(* character offsets as in Python.  The texts explored are over an         *)
(* alphabet without digits, minus sign, backslash, N and I, so numbers,    *)
(* escapes, NaN and Infinity cannot occur in them.                         *)
(*                                                                         *)
(* A parsed value is [t, v]: t is "str" (v the characters), "arr" (v the   *)
(* items), "obj" (v the key/value pairs in source order; a dict keeps the  *)
(* last value of a repeated key), or "null", "true", "false".              *)
(***************************************************************************)
JsonWs == {" ", "\t", "\n", "\r"}
ControlChars == {"\t", "\n", "\r"}

\* s[i:i+1] : the character at offset i, or "" past the end
Ch(s, i) == IF i >= 0 /\ i < Len(s) THEN s[i + 1] ELSE ""

\* WHITESPACE.match(s, i).end()
SkipWs(s, i) ==
    LET stops == {q \in i..(Len(s) - 1) : s[q + 1] \notin JsonWs}
    IN  IF stops = {} THEN (IF i > Len(s) THEN i ELSE Len(s)) ELSE Min(stops)

Parsed(v, e) == [ok |-> TRUE, val |-> v, end |-> e, msg |-> "", pos |-> 0]
DecodeError(m, p) ==
    [ok |-> FALSE, val |-> [t |-> "null", v |-> <<>>], end |-> 0, msg |-> m, pos |-> p]

\* scanstring(s, begin, strict=True): begin is the offset after the opening quote
ScanString(s, begin) ==
    LET stops == {q \in begin..(Len(s) - 1) : s[q + 1] \in ({"\""} \cup ControlChars)}
    IN  IF stops = {} THEN DecodeError("Unterminated string starting at", begin - 1)
        ELSE LET q == Min(stops)
             IN  IF s[q + 1] = "\""
                 THEN Parsed([t |-> "str", v |-> Slice(s, begin + 1, q)], q + 1)
                 ELSE DecodeError("Invalid control character at", q)

HasWord(s, i, w) == LitAt(s, i + 1, w)

RECURSIVE ScanOnce(_, _), ParseMembers(_, _, _), ParseItems(_, _, _)

\* scan_once(s, idx); a StopIteration becomes "Expecting value" in raw_decode
ScanOnce(s, idx) ==
    LET c == Ch(s, idx)
    IN  IF c = "\"" THEN ScanString(s, idx + 1)
        ELSE IF c = "{" THEN
            LET i == SkipWs(s, idx + 1)
            IN  IF Ch(s, i) = "}" THEN Parsed([t |-> "obj", v |-> <<>>], i + 1)
                ELSE ParseMembers(s, i, <<>>)
        ELSE IF c = "[" THEN
            LET i == SkipWs(s, idx + 1)
            IN  IF Ch(s, i) = "]" THEN Parsed([t |-> "arr", v |-> <<>>], i + 1)
                ELSE ParseItems(s, i, <<>>)
        ELSE IF HasWord(s, idx, <<"n", "u", "l", "l">>)
            THEN Parsed([t |-> "null", v |-> <<>>], idx + 4)
        ELSE IF HasWord(s, idx, <<"t", "r", "u", "e">>)
            THEN Parsed([t |-> "true", v |-> <<>>], idx + 4)
        ELSE IF HasWord(s, idx, <<"f", "a", "l", "s", "e">>)
            THEN Parsed([t |-> "false", v |-> <<>>], idx + 5)
        ELSE DecodeError("Expecting value", idx)

\* the key/value loop of the object scanner; idx is at the next key
ParseMembers(s, idx, acc) ==
    IF Ch(s, idx) # "\""
    THEN DecodeError("Expecting property name enclosed in double quotes", idx)
    ELSE LET key == ScanString(s, idx + 1)
         IN  IF ~key.ok THEN key
             ELSE LET i1 == SkipWs(s, key.end)
                  IN  IF Ch(s, i1) # ":" THEN DecodeError("Expecting ':' delimiter", i1)
                      ELSE LET val == ScanOnce(s, SkipWs(s, i1 + 1))
                           IN  IF ~val.ok THEN val
                               ELSE LET i3  == SkipWs(s, val.end)
                                        all == Append(acc, [k |-> key.val.v, val |-> val.val])
                                    IN  IF Ch(s, i3) = "}"
                                        THEN Parsed([t |-> "obj", v |-> all], i3 + 1)
                                        ELSE IF Ch(s, i3) # ","
                                        THEN DecodeError("Expecting ',' delimiter", i3)
                                        ELSE ParseMembers(s, SkipWs(s, i3 + 1), all)

\* the item loop of the array scanner; idx is at the next item
ParseItems(s, idx, acc) ==
    LET val == ScanOnce(s, idx)
    IN  IF ~val.ok THEN val
        ELSE LET i2  == SkipWs(s, val.end)
                 all == Append(acc, val.val)
             IN  IF Ch(s, i2) = "]" THEN Parsed([t |-> "arr", v |-> all], i2 + 1)
                 ELSE IF Ch(s, i2) # "," THEN DecodeError("Expecting ',' delimiter", i2)
                 ELSE ParseItems(s, SkipWs(s, i2 + 1), all)

\* json.loads(s): JSONDecoder.decode
JsonLoads(s) ==
    LET r == ScanOnce(s, SkipWs(s, 0))
    IN  IF ~r.ok THEN r
        ELSE LET e == SkipWs(s, r.end)
             IN  IF e # Len(s) THEN DecodeError("Extra data", e) ELSE r

(***************************************************************************)
(* schemas.py: Citation and QAResponse, and pydantic's model_validate.     *)
(* A validation error line is [field, index, sub, type]: the location      *)
(* (field, list index or -1, sub-field or "") and pydantic's error type.   *)
(***************************************************************************)
ErrLine(f, i, sub, ty) == [field |-> f, index |-> i, sub |-> sub, type |-> ty]

\* dict lookup on the parsed pairs: the last pair with that key
HasKey(pairs, key) == \E i \in 1..Len(pairs) : pairs[i].k = key
GetKey(pairs, key) == pairs[Max({i \in 1..Len(pairs) : pairs[i].k = key})].val

\* a required `str = Field(...)` field of the object `pairs`
StrFieldErrors(pairs, key, f, i, sub) ==
    IF ~HasKey(pairs, key) THEN <<ErrLine(f, i, sub, "missing")>>
    ELSE IF GetKey(pairs, key).t # "str" THEN <<ErrLine(f, i, sub, "string_type")>>
    ELSE <<>>

KeyAnswer == <<"a", "n", "s", "w", "e", "r">>
KeyCitations == <<"c", "i", "t", "a", "t", "i", "o", "n", "s">>
KeySourceId == <<"s", "o", "u", "r", "c", "e", "_", "i", "d">>
KeyQuote == <<"q", "u", "o", "t", "e">>

\* class Citation: source_id and quote, both required strings
CitationErrors(v, i) ==
    IF v.t # "obj" THEN <<ErrLine("citations", i, "", "model_type")>>
    ELSE StrFieldErrors(v.v, KeySourceId, "citations", i, "source_id")
         \o StrFieldErrors(v.v, KeyQuote, "citations", i, "quote")

Citation(v) == [source_id |-> GetKey(v.v, KeySourceId).v, quote |-> GetKey(v.v, KeyQuote).v]

RECURSIVE CitationListErrors(_, _)
CitationListErrors(items, i) ==
    IF i >= Len(items) THEN <<>>
    ELSE CitationErrors(items[i + 1], i) \o CitationListErrors(items, i + 1)

\* citations declared required, as Field(...), instead of defaulting to []
CitationsErrorsRequired(pairs) ==
    IF ~HasKey(pairs, KeyCitations) THEN <<ErrLine("citations", -1, "", "missing")>>
    ELSE IF GetKey(pairs, KeyCitations).t # "arr"
    THEN <<ErrLine("citations", -1, "", "list_type")>>
    ELSE CitationListErrors(GetKey(pairs, KeyCitations).v, 0)

\* QAResponse.citations: List[Citation] with default_factory=list
CitationsErrors(pairs) ==
    IF ~HasKey(pairs, KeyCitations) THEN <<>>
    ELSE IF GetKey(pairs, KeyCitations).t # "arr"
    THEN <<ErrLine("citations", -1, "", "list_type")>>
    ELSE CitationListErrors(GetKey(pairs, KeyCitations).v, 0)

\* the errors pydantic collects for QAResponse, in field order
QAResponseErrors(data) ==
    IF data.t # "obj" THEN <<ErrLine("", -1, "", "model_type")>>
    ELSE StrFieldErrors(data.v, KeyAnswer, "answer", -1, "") \o CitationsErrors(data.v)

\* class QAResponse: the typed value built from conforming data
QAResponse(data) ==
    [type      |-> "QAResponse",
     answer    |-> GetKey(data.v, KeyAnswer).v,
     citations |-> IF HasKey(data.v, KeyCitations)
                   THEN [i \in 1..Len(GetKey(data.v, KeyCitations).v) |->
                            Citation(GetKey(data.v, KeyCitations).v[i])]
                   ELSE <<>>]

\* Python's None as a return value
PyNone == [type |-> "NoneType", answer |-> <<>>, citations |-> <<>>]

(***************************************************************************)
(* Error descriptions and prompts.  An error description is the formatted  *)
(* string of lines 67 and 69, kept as its parts: the literal prefix and    *)
(* the exception's message (msg and offset of a JSONDecodeError, title and *)
(* error lines of a ValidationError; the echo of the offending input that  *)
(* pydantic adds to each line is not kept).  A prompt is a sequence of     *)
(* chunks; a chunk is a literal piece of text or an error description.     *)
(***************************************************************************)
NoError == [prefix |-> "None", msg |-> "", pos |-> 0, errors |-> <<>>]

JsonErrorText(r) ==
    [prefix |-> "JSON decode error: ", msg |-> r.msg, pos |-> r.pos, errors |-> <<>>]

SchemaErrorText(errs) ==
    [prefix |-> "Schema validation error: ", msg |-> "validation error for QAResponse",
     pos |-> 0, errors |-> errs]

Lit(str) == [kind |-> "lit", lit |-> str, err |-> NoError]
ErrChunk(e) == [kind |-> "err", lit |-> "", err |-> e]

SuffixHead == "\n            ---\n            Your previous response was invalid:\n            "
SuffixTail == "\n\n            Please fix the JSON and return ONLY valid JSON matching the schema. No other text.\n            "

\* a corrective suffix that says "invalid, try again" without the error
CorrectiveSuffixGeneric(e) == <<Lit(SuffixHead), Lit(SuffixTail)>>

\* the text the f-string of lines 72-78 appends to the working prompt
CorrectiveSuffix(e) == <<Lit(SuffixHead), ErrChunk(e), Lit(SuffixTail)>>

(***************************************************************************)
(* The completion service (llm_client.call_llm): what it may return, and   *)
(* the faults it may raise.                                                *)
(***************************************************************************)
Str(w) == <<"\"">> \o w \o <<"\"">>
Member(key, val) == Str(key) \o <<":">> \o val
Obj(body) == <<"{">> \o body \o <<"}">>
Arr(body) == <<"[">> \o body \o <<"]">>

\* {"answer":"x"}
PayloadAnswerOnly == Obj(Member(KeyAnswer, Str(<<"x">>)))
\* {"answer":"x","citations":[{"source_id":"d","quote":"q"}]}
PayloadCited ==
    Obj(Member(KeyAnswer, Str(<<"x">>)) \o <<",">> \o
        Member(KeyCitations,
               Arr(Obj(Member(KeySourceId, Str(<<"d">>)) \o <<",">> \o
                       Member(KeyQuote, Str(<<"q">>))))))
\* {"answer":"<fence>"} : valid JSON whose answer is three backticks
PayloadFenceInAnswer == Obj(Member(KeyAnswer, Str(Fence)))
\* {"answer":"<fence>x<fence>"} : valid JSON whose answer quotes a fenced block
PayloadBlockInAnswer == Obj(Member(KeyAnswer, Str(Fence \o <<"x">> \o Fence)))
\* {"answer":"x   : cut off inside the string
PayloadTruncated == <<"{">> \o Member(KeyAnswer, <<"\"", "x">>)
\* prose instead of JSON
PayloadProse == <<"s", "o", "r", "r", "y">>
\* {"citations":[{"source_id":"d","quote":"q"}]} : no answer
PayloadNoAnswer ==
    Obj(Member(KeyCitations,
               Arr(Obj(Member(KeySourceId, Str(<<"d">>)) \o <<",">> \o
                       Member(KeyQuote, Str(<<"q">>))))))
\* {"answer":[]} : answer of the wrong type
PayloadAnswerList == Obj(Member(KeyAnswer, Arr(<<>>)))
\* {"answer":"x","citations":[{"quote":"q"}]} : citation without source_id
PayloadBadCitation ==
    Obj(Member(KeyAnswer, Str(<<"x">>)) \o <<",">> \o
        Member(KeyCitations, Arr(Obj(Member(KeyQuote, Str(<<"q">>))))))

Bare(p) == p
Tagged(p) == JsonFence \o <<"\n">> \o p \o <<"\n">> \o Fence
Untagged(p) == Fence \o <<"\n">> \o p \o <<"\n">> \o Fence

Responses ==
    { Bare(PayloadAnswerOnly), Tagged(PayloadCited), Untagged(PayloadAnswerOnly),
      <<"o", "k", " ">> \o Tagged(PayloadAnswerOnly) \o <<" ", "o", "k">>,
      Bare(PayloadFenceInAnswer), Tagged(PayloadFenceInAnswer),
      Bare(PayloadBlockInAnswer),
      Bare(PayloadTruncated), Bare(PayloadProse), Tagged(PayloadNoAnswer),
      Bare(PayloadAnswerList), Untagged(PayloadBadCitation) }

\* exceptions ollama.chat may raise
Faults == {"ConnectionError", "ResponseError"}

Prompts == {<<Lit("What was the revenue and growth in Q3?")>>, <<Lit("Who is the CEO?")>>}
Models == {"llama3.2", "mistral"}

\* the attempt budgets explored: the non-positive ones leave the loop unentered
Budgets == (-1)..MaxBudget

(***************************************************************************)
(* ask_llm_for_json                                                        *)
(***************************************************************************)
NoExc == [cls |-> "", attempts |-> 0, last_error |-> NoError]
NoOutcome == [kind |-> "none", value |-> PyNone, exc |-> NoExc]
Returned(v) == [kind |-> "return", value |-> v, exc |-> NoExc]
Raised(e) == [kind |-> "raise", value |-> PyNone, exc |-> e]

HarnessIdle ==
    /\ text = <<>>
    /\ once = <<>>
    /\ twice = <<>>
    /\ xpc = "idle"

\* the callers that run ask_llm_for_json at the same time
Procs == {1, 2}

\* the frame of one call of ask_llm_for_json: its arguments, its locals, its
\* position, how it ended and the service calls it made
Frame(p0, m, budget, at) ==
    [prompt |-> p0, model |-> m, max_retries |-> budget,
     current_prompt |-> p0, last_error |-> NoError, attempt |-> -1,
     raw |-> <<>>, json_str |-> <<>>, pc |-> at, outcome |-> NoOutcome,
     calls |-> <<>>]

ConcIdle == res = [p \in Procs |-> Frame(<<>>, "", 0, "idle")]

\* function entry, lines 46-57
Init ==
    /\ prompt \in Prompts
    /\ model \in Models
    /\ max_retries \in Budgets
    /\ current_prompt = prompt
    /\ last_error = NoError
    /\ attempt = -1
    /\ raw = <<>>
    /\ json_str = <<>>
    /\ pc = "for"
    /\ outcome = NoOutcome
    /\ calls = <<>>
    /\ HarnessIdle
    /\ ConcIdle

\* the loop written so that an exhausted range raises the exhaustion failure
ForNextRaises ==
    /\ pc = "for"
    /\ IF attempt + 1 < max_retries
       THEN /\ attempt' = attempt + 1
            /\ pc' = "call"
            /\ UNCHANGED outcome
       ELSE /\ outcome' = Raised([cls |-> "ValueError", attempts |-> max_retries,
                                  last_error |-> last_error])
            /\ pc' = "done"
            /\ UNCHANGED attempt
    /\ UNCHANGED <<prompt, model, max_retries, current_prompt, last_error,
                   raw, json_str, calls>>
    /\ UNCHANGED <<harnessVars, res>>

\* line 59: the for statement takes the next index of range(max_retries);
\* when the range is exhausted the function body ends and None is returned
ForNext ==
    /\ pc = "for"
    /\ IF attempt + 1 < max_retries
       THEN /\ attempt' = attempt + 1
            /\ pc' = "call"
            /\ UNCHANGED outcome
       ELSE /\ outcome' = Returned(PyNone)
            /\ pc' = "done"
            /\ UNCHANGED attempt
    /\ UNCHANGED <<prompt, model, max_retries, current_prompt, last_error,
                   raw, json_str, calls>>
    /\ UNCHANGED <<harnessVars, res>>

\* call_llm(current_prompt) without model=model: the client's default is used
CallReturnsDefaultModel ==
    /\ pc = "call"
    /\ \E r \in Responses :
          /\ raw' = r
          /\ calls' = Append(calls, [prompt |-> current_prompt, model |-> "llama3.2",
                                     fault |-> "", response |-> r])
    /\ pc' = "extract"
    /\ UNCHANGED <<prompt, model, max_retries, current_prompt, last_error,
                   attempt, json_str, outcome>>
    /\ UNCHANGED <<harnessVars, res>>

\* line 60: call_llm returns a text
CallReturns ==
    /\ pc = "call"
    /\ \E r \in Responses :
          /\ raw' = r
          /\ calls' = Append(calls, [prompt |-> current_prompt, model |-> model,
                                     fault |-> "", response |-> r])
    /\ pc' = "extract"
    /\ UNCHANGED <<prompt, model, max_retries, current_prompt, last_error,
                   attempt, json_str, outcome>>
    /\ UNCHANGED <<harnessVars, res>>

\* call_llm inside the try: a fault is recorded and retried like a bad response
CallFaultsRetried ==
    /\ pc = "call"
    /\ \E f \in Faults :
          /\ calls' = Append(calls, [prompt |-> current_prompt, model |-> model,
                                     fault |-> f, response |-> <<>>])
          /\ last_error' = [prefix |-> f, msg |-> "", pos |-> 0, errors |-> <<>>]
    /\ pc' = "check"
    /\ UNCHANGED <<prompt, model, max_retries, current_prompt, outcome,
                   attempt, raw, json_str>>
    /\ UNCHANGED <<harnessVars, res>>

\* line 60: call_llm raises; the call is outside the try, so the exception
\* leaves ask_llm_for_json
CallFaults ==
    /\ pc = "call"
    /\ \E f \in Faults :
          /\ calls' = Append(calls, [prompt |-> current_prompt, model |-> model,
                                     fault |-> f, response |-> <<>>])
          /\ outcome' = Raised([cls |-> f, attempts |-> 0, last_error |-> NoError])
    /\ pc' = "done"
    /\ UNCHANGED <<prompt, model, max_retries, current_prompt, last_error,
                   attempt, raw, json_str>>
    /\ UNCHANGED <<harnessVars, res>>

\* _extract_json on each text the service can return (and on the empty text
\* raw holds before the first call), computed once
Extracted == [r \in Responses \cup {<<>>} |-> ExtractJson(r)]

\* json.loads on each text line 61 can hand to line 64, computed once
Loaded == [s \in {Extracted[r] : r \in Responses \cup {<<>>}} |-> JsonLoads(s)]

\* line 61
Extract ==
    /\ pc = "extract"
    /\ json_str' = Extracted[raw]
    /\ pc' = "try"
    /\ UNCHANGED <<prompt, model, max_retries, current_prompt, last_error,
                   attempt, raw, outcome, calls>>
    /\ UNCHANGED <<harnessVars, res>>

\* the try statement returning the parsed data without model_validate
TryParseOnly ==
    /\ pc = "try"
    /\ LET data == Loaded[json_str]
       IN  IF ~data.ok
           THEN /\ last_error' = JsonErrorText(data)
                /\ pc' = "check"
                /\ UNCHANGED outcome
           ELSE /\ outcome' = Returned([type |-> "dict", answer |-> <<>>, citations |-> <<>>])
                /\ pc' = "done"
                /\ UNCHANGED last_error
    /\ UNCHANGED <<prompt, model, max_retries, current_prompt, attempt, raw,
                   json_str, calls>>
    /\ UNCHANGED <<harnessVars, res>>

\* the try statement without `return`: the value is kept and the loop goes on
TryParseValidateNoReturn ==
    /\ pc = "try"
    /\ LET data == Loaded[json_str]
       IN  IF ~data.ok
           THEN /\ last_error' = JsonErrorText(data)
                /\ pc' = "check"
                /\ UNCHANGED outcome
           ELSE IF QAResponseErrors(data.val) # <<>>
           THEN /\ last_error' = SchemaErrorText(QAResponseErrors(data.val))
                /\ pc' = "check"
                /\ UNCHANGED outcome
           ELSE /\ outcome' = Returned(QAResponse(data.val))
                /\ pc' = "check"
                /\ UNCHANGED last_error
    /\ UNCHANGED <<prompt, model, max_retries, current_prompt, attempt, raw,
                   json_str, calls>>
    /\ UNCHANGED <<harnessVars, res>>

\* the try statement keeping the first error instead of the latest
TryParseValidateKeepFirst ==
    /\ pc = "try"
    /\ LET data == Loaded[json_str]
           keep(e) == IF last_error = NoError THEN e ELSE last_error
       IN  IF ~data.ok
           THEN /\ last_error' = keep(JsonErrorText(data))
                /\ pc' = "check"
                /\ UNCHANGED outcome
           ELSE IF QAResponseErrors(data.val) # <<>>
           THEN /\ last_error' = keep(SchemaErrorText(QAResponseErrors(data.val)))
                /\ pc' = "check"
                /\ UNCHANGED outcome
           ELSE /\ outcome' = Returned(QAResponse(data.val))
                /\ pc' = "done"
                /\ UNCHANGED last_error
    /\ UNCHANGED <<prompt, model, max_retries, current_prompt, attempt, raw,
                   json_str, calls>>
    /\ UNCHANGED <<harnessVars, res>>

\* the try statement without the `except ValidationError` clause
TryParseValidateUncaught ==
    /\ pc = "try"
    /\ LET data == Loaded[json_str]
       IN  IF ~data.ok
           THEN /\ last_error' = JsonErrorText(data)
                /\ pc' = "check"
                /\ UNCHANGED outcome
           ELSE IF QAResponseErrors(data.val) # <<>>
           THEN /\ outcome' = Raised([cls |-> "ValidationError", attempts |-> 0,
                                      last_error |-> SchemaErrorText(QAResponseErrors(data.val))])
                /\ pc' = "done"
                /\ UNCHANGED last_error
           ELSE /\ outcome' = Returned(QAResponse(data.val))
                /\ pc' = "done"
                /\ UNCHANGED last_error
    /\ UNCHANGED <<prompt, model, max_retries, current_prompt, attempt, raw,
                   json_str, calls>>
    /\ UNCHANGED <<harnessVars, res>>

\* lines 63-69: json.loads, then model_validate; return on success, record
\* the error description otherwise
TryParseValidate ==
    /\ pc = "try"
    /\ LET data == Loaded[json_str]
       IN  IF ~data.ok
           THEN /\ last_error' = JsonErrorText(data)
                /\ pc' = "check"
                /\ UNCHANGED outcome
           ELSE IF QAResponseErrors(data.val) # <<>>
           THEN /\ last_error' = SchemaErrorText(QAResponseErrors(data.val))
                /\ pc' = "check"
                /\ UNCHANGED outcome
           ELSE /\ outcome' = Returned(QAResponse(data.val))
                /\ pc' = "done"
                /\ UNCHANGED last_error
    /\ UNCHANGED <<prompt, model, max_retries, current_prompt, attempt, raw,
                   json_str, calls>>
    /\ UNCHANGED <<harnessVars, res>>

\* the last attempt ending the loop silently instead of raising
RetryOrReturnNone ==
    /\ pc = "check"
    /\ IF attempt < max_retries - 1
       THEN /\ current_prompt' = current_prompt \o CorrectiveSuffix(last_error)
            /\ pc' = "for"
            /\ UNCHANGED outcome
       ELSE /\ outcome' = Returned(PyNone)
            /\ pc' = "done"
            /\ UNCHANGED current_prompt
    /\ UNCHANGED <<prompt, model, max_retries, last_error, attempt, raw,
                   json_str, calls>>
    /\ UNCHANGED <<harnessVars, res>>

\* a retry that goes straight back to the service call, the attempt index
\* not advanced
RetryWithoutAdvance ==
    /\ pc = "check"
    /\ IF attempt < max_retries - 1
       THEN /\ current_prompt' = current_prompt \o CorrectiveSuffix(last_error)
            /\ pc' = "call"
            /\ UNCHANGED outcome
       ELSE /\ outcome' = Raised([cls |-> "ValueError", attempts |-> max_retries,
                                  last_error |-> last_error])
            /\ pc' = "done"
            /\ UNCHANGED current_prompt
    /\ UNCHANGED <<prompt, model, max_retries, last_error, attempt, raw,
                   json_str, calls>>
    /\ UNCHANGED <<harnessVars, res>>

\* the corrective prompt rebuilt from the caller's prompt every time
RetryFromOriginal ==
    /\ pc = "check"
    /\ IF attempt < max_retries - 1
       THEN /\ current_prompt' = prompt \o CorrectiveSuffix(last_error)
            /\ pc' = "for"
            /\ UNCHANGED outcome
       ELSE /\ outcome' = Raised([cls |-> "ValueError", attempts |-> max_retries,
                                  last_error |-> last_error])
            /\ pc' = "done"
            /\ UNCHANGED current_prompt
    /\ UNCHANGED <<prompt, model, max_retries, last_error, attempt, raw,
                   json_str, calls>>
    /\ UNCHANGED <<harnessVars, res>>

\* lines 71-80: extend the working prompt, or raise after the last attempt
RetryOrRaise ==
    /\ pc = "check"
    /\ IF attempt < max_retries - 1
       THEN /\ current_prompt' = current_prompt \o CorrectiveSuffix(last_error)
            /\ pc' = "for"
            /\ UNCHANGED outcome
       ELSE /\ outcome' = Raised([cls |-> "ValueError", attempts |-> max_retries,
                                  last_error |-> last_error])
            /\ pc' = "done"
            /\ UNCHANGED current_prompt
    /\ UNCHANGED <<prompt, model, max_retries, last_error, attempt, raw,
                   json_str, calls>>
    /\ UNCHANGED <<harnessVars, res>>

Next == ForNext \/ CallReturns \/ CallFaults \/ Extract \/ TryParseValidate \/ RetryOrRaise

Spec == Init /\ [][Next]_vars

\* the interpreter keeps executing the function, and every call_llm returns
\* or faults: a step that can be taken is eventually taken
SpecFair == Init /\ [][Next]_vars /\ WF_vars(Next)

(***************************************************************************)
(* Extractor harness: _extract_json applied to a text, then to its own     *)
(* output.  Inputs are all concatenations of at most MaxPieces pieces.     *)
(***************************************************************************)
Pieces == {JsonFence, Fence, <<Tick>>, <<" ">>, <<"a">>}

RECURSIVE TextsUpTo(_)
TextsUpTo(n) ==
    IF n = 0 THEN {<<>>}
    ELSE LET prev == TextsUpTo(n - 1)
         IN  prev \cup {t \o p : t \in prev, p \in Pieces}

\* one-block texts as chat models write them: an opening fence with or
\* without a language tag, a line break, a body, a line break and the
\* closing fence, possibly with prose around the block
LanguageTags == {<<>>, <<"p", "y">>}

LanguageTexts ==
    {pre \o Fence \o tag \o <<"\n">> \o body \o <<"\n">> \o Fence \o post :
        pre \in {<<>>, <<"a", " ">>}, tag \in LanguageTags,
        body \in {<<"a">>, <<"a", " ", "a">>}, post \in {<<>>, <<" ", "a">>}}

Texts == TextsUpTo(MaxPieces) \cup LanguageTexts

LoopIdle ==
    /\ prompt = <<>>
    /\ model = ""
    /\ max_retries = 0
    /\ current_prompt = <<>>
    /\ last_error = NoError
    /\ attempt = -1
    /\ raw = <<>>
    /\ json_str = <<>>
    /\ pc = "idle"
    /\ outcome = NoOutcome
    /\ calls = <<>>

InitExtract ==
    /\ text \in Texts
    /\ once = <<>>
    /\ twice = <<>>
    /\ xpc = "input"
    /\ LoopIdle
    /\ ConcIdle

ExtractOnce ==
    /\ xpc = "input"
    /\ once' = ExtractJson(text)
    /\ xpc' = "once"
    /\ UNCHANGED <<text, twice>>
    /\ UNCHANGED <<loopVars, res>>

ExtractTwice ==
    /\ xpc = "once"
    /\ twice' = ExtractJson(once)
    /\ xpc' = "twice"
    /\ UNCHANGED <<text, once>>
    /\ UNCHANGED <<loopVars, res>>

NextExtract == ExtractOnce \/ ExtractTwice

SpecExtract == InitExtract /\ [][NextExtract]_vars

(***************************************************************************)
(* Concurrent callers: every caller in Procs runs ask_llm_for_json in its   *)
(* own frame; a step is one statement of one caller, the callers' steps     *)
(* interleave in any order.  The function reads no module-level name that   *)
(* is ever assigned (MAX_RETRIES and DEFAULT_MODEL are only defaults), so   *)
(* a statement reads and writes the frame of its caller only.               *)
(***************************************************************************)
\* what the service answers a caller that runs beside another: a conformant
\* text, one that does not parse and one that parses without conforming
ConcResponses == {Bare(PayloadAnswerOnly), Bare(PayloadProse), Tagged(PayloadNoAnswer)}

ConcBudgets == 0..MaxConcBudget

\* function entry of each caller, lines 46-57
InitConc ==
    /\ res \in [Procs -> {Frame(p0, m, b, "for") :
                              p0 \in Prompts, m \in Models, b \in ConcBudgets}]
    /\ LoopIdle
    /\ HarnessIdle

\* line 59 in the frame of caller p
ForNextIn(p) ==
    /\ res[p].pc = "for"
    /\ res' = [res EXCEPT ![p] =
                  IF @.attempt + 1 < @.max_retries
                  THEN [@ EXCEPT !.attempt = @ + 1, !.pc = "call"]
                  ELSE [@ EXCEPT !.outcome = Returned(PyNone), !.pc = "done"]]
    /\ UNCHANGED <<loopVars, harnessVars>>

\* line 60 in the frame of caller p: the service returns a text
CallReturnsIn(p) ==
    /\ res[p].pc = "call"
    /\ \E r \in ConcResponses :
          res' = [res EXCEPT ![p] =
                    [@ EXCEPT !.raw = r,
                              !.calls = Append(@, [prompt |-> res[p].current_prompt,
                                                   model |-> res[p].model,
                                                   fault |-> "", response |-> r]),
                              !.pc = "extract"]]
    /\ UNCHANGED <<loopVars, harnessVars>>

\* line 60 in the frame of caller p: call_llm raises
CallFaultsIn(p) ==
    /\ res[p].pc = "call"
    /\ \E f \in Faults :
          res' = [res EXCEPT ![p] =
                    [@ EXCEPT !.calls = Append(@, [prompt |-> res[p].current_prompt,
                                                   model |-> res[p].model,
                                                   fault |-> f, response |-> <<>>]),
                              !.outcome = Raised([cls |-> f, attempts |-> 0,
                                                  last_error |-> NoError]),
                              !.pc = "done"]]
    /\ UNCHANGED <<loopVars, harnessVars>>

\* line 61 in the frame of caller p
ExtractIn(p) ==
    /\ res[p].pc = "extract"
    /\ res' = [res EXCEPT ![p] = [@ EXCEPT !.json_str = Extracted[res[p].raw],
                                          !.pc = "try"]]
    /\ UNCHANGED <<loopVars, harnessVars>>

\* lines 63-69 with last_error kept in one module-level name that every
\* caller assigns and reads
TryParseValidateShared(p) ==
    /\ res[p].pc = "try"
    /\ LET data == Loaded[res[p].json_str]
           err  == IF ~data.ok THEN JsonErrorText(data)
                   ELSE SchemaErrorText(QAResponseErrors(data.val))
       IN  IF data.ok /\ QAResponseErrors(data.val) = <<>>
           THEN res' = [res EXCEPT ![p] =
                          [@ EXCEPT !.outcome = Returned(QAResponse(data.val)),
                                    !.pc = "done"]]
           ELSE res' = [q \in Procs |->
                          IF q = p
                          THEN [res[q] EXCEPT !.last_error = err, !.pc = "check"]
                          ELSE [res[q] EXCEPT !.last_error = err]]
    /\ UNCHANGED <<loopVars, harnessVars>>

\* lines 63-69 in the frame of caller p
TryParseValidateIn(p) ==
    /\ res[p].pc = "try"
    /\ LET data == Loaded[res[p].json_str]
       IN  IF ~data.ok
           THEN res' = [res EXCEPT ![p] =
                          [@ EXCEPT !.last_error = JsonErrorText(data),
                                    !.pc = "check"]]
           ELSE IF QAResponseErrors(data.val) # <<>>
           THEN res' = [res EXCEPT ![p] =
                          [@ EXCEPT !.last_error =
                                        SchemaErrorText(QAResponseErrors(data.val)),
                                    !.pc = "check"]]
           ELSE res' = [res EXCEPT ![p] =
                          [@ EXCEPT !.outcome = Returned(QAResponse(data.val)),
                                    !.pc = "done"]]
    /\ UNCHANGED <<loopVars, harnessVars>>

\* lines 71-80 in the frame of caller p
RetryOrRaiseIn(p) ==
    /\ res[p].pc = "check"
    /\ res' = [res EXCEPT ![p] =
                  IF @.attempt < @.max_retries - 1
                  THEN [@ EXCEPT !.current_prompt =
                                     @ \o CorrectiveSuffix(res[p].last_error),
                                 !.pc = "for"]
                  ELSE [@ EXCEPT !.outcome =
                                     Raised([cls |-> "ValueError",
                                             attempts |-> res[p].max_retries,
                                             last_error |-> res[p].last_error]),
                                 !.pc = "done"]]
    /\ UNCHANGED <<loopVars, harnessVars>>

NextConc ==
    \E p \in Procs :
        \/ ForNextIn(p)
        \/ CallReturnsIn(p)
        \/ CallFaultsIn(p)
        \/ ExtractIn(p)
        \/ TryParseValidateIn(p)
        \/ RetryOrRaiseIn(p)

SpecConc == InitConc /\ [][NextConc]_vars

(***************************************************************************)
(* Fenced blocks, described by position and independently of the regular   *)
(* expressions: a block is an opening fence at i and a later fence at j;   *)
(* its interior is what lies between the opening (with its tag) and j.     *)
(***************************************************************************)
FencesOf(t) == {i \in 1..Len(t) : LitAt(t, i, Fence)}

JsonBlocks(t) ==
    {b \in {i \in FencesOf(t) : LitAt(t, i, JsonFence)} \X FencesOf(t) :
        b[2] >= b[1] + Len(JsonFence)}

PlainBlocks(t) ==
    {b \in {i \in FencesOf(t) : ~LitAt(t, i, JsonFence)} \X FencesOf(t) :
        b[2] >= b[1] + Len(Fence)}

\* interior of the first json-tagged block: leftmost opening, nearest closing
FirstJsonInterior(t) ==
    LET i == Min({b[1] : b \in JsonBlocks(t)})
        j == Min({b[2] : b \in {c \in JsonBlocks(t) : c[1] = i}})
    IN  Slice(t, i + Len(JsonFence), j - 1)

\* length of the language tag on the opening fence at i: the characters
\* between the fence and the end of its line, when there are some and none
\* of them is whitespace or a backtick (0 when the fence carries no tag)
TagLen(t, i) ==
    LET from == i + Len(Fence)
        ends == {k \in from..Len(t) : t[k] = "\n"}
    IN  IF ends = {} THEN 0
        ELSE LET e == Min(ends)
             IN  IF \A k \in from..(e - 1) : ~IsSpace(t[k]) /\ t[k] # Tick
                 THEN e - from
                 ELSE 0

\* interior of the first plain block: leftmost opening, nearest closing,
\* the language tag of the opening fence not being part of the interior
FirstPlainInterior(t) ==
    LET i == Min({b[1] : b \in PlainBlocks(t)})
        j == Min({b[2] : b \in {c \in PlainBlocks(t) : c[1] = i}})
    IN  Slice(t, i + Len(Fence) + TagLen(t, i), j - 1)

(***************************************************************************)
(* Reading the history: what a response amounts to, attempt by attempt     *)
(***************************************************************************)
\* what lines 61-69 make of a response r: whether it parses, whether it
\* also validates, the typed value if so and the error description if not
Reading(r) ==
    LET d  == JsonLoads(ExtractJson(r))
        ok == d.ok /\ QAResponseErrors(d.val) = <<>>
    IN  [parses     |-> d.ok,
         conformant |-> ok,
         value      |-> IF ok THEN QAResponse(d.val) ELSE PyNone,
         error      |-> IF ok THEN NoError
                        ELSE IF ~d.ok THEN JsonErrorText(d)
                        ELSE SchemaErrorText(QAResponseErrors(d.val))]

\* the readings of all texts the service can return (and of the empty text
\* the history records for a faulted call)
Readings == [r \in Responses \cup {<<>>} |-> Reading(r)]

Parses(r) == Readings[r].parses
Conformant(r) == Readings[r].conformant
ValueOf(r) == Readings[r].value
ErrorOf(r) == Readings[r].error

\* what json.loads makes of the extracted text of each response
Data == [r \in Responses \cup {<<>>} |-> JsonLoads(ExtractJson(r))]

\* the parsed payload is an object without answer whose citations are
\* present and well-formed
LacksOnlyAnswer(r) ==
    /\ Data[r].ok
    /\ Data[r].val.t = "obj"
    /\ ~HasKey(Data[r].val.v, KeyAnswer)
    /\ HasKey(Data[r].val.v, KeyCitations)
    /\ GetKey(Data[r].val.v, KeyCitations).t = "arr"
    /\ GetKey(Data[r].val.v, KeyCitations).v # <<>>
    /\ CitationsErrors(Data[r].val.v) = <<>>

\* the parsed payload is an object with a string answer and no citations key
AnswerWithoutCitations(r) ==
    /\ Data[r].ok
    /\ Data[r].val.t = "obj"
    /\ HasKey(Data[r].val.v, KeyAnswer)
    /\ GetKey(Data[r].val.v, KeyAnswer).t = "str"
    /\ ~HasKey(Data[r].val.v, KeyCitations)

\* the payloads that are valid JSON matching the schema as they stand
Payloads ==
    { PayloadAnswerOnly, PayloadCited, PayloadFenceInAnswer, PayloadBlockInAnswer,
      PayloadTruncated, PayloadProse, PayloadNoAnswer, PayloadAnswerList,
      PayloadBadCitation }

ValidPayloads ==
    {p \in Payloads : JsonLoads(p).ok /\ QAResponseErrors(JsonLoads(p).val) = <<>>}

Wrappings(p) == {Bare(p), Tagged(p), Untagged(p)}

\* the attempt that received calls[k] has been carried through lines 61-69
Processed(k) == k < Len(calls) \/ pc \in {"check", "for", "call", "done"}

\* the error descriptions a prompt carries, in order
RECURSIVE ErrorsIn(_)
ErrorsIn(p) ==
    IF p = <<>> THEN <<>>
    ELSE IF Head(p).kind = "err" THEN <<Head(p).err>> \o ErrorsIn(Tail(p))
    ELSE ErrorsIn(Tail(p))

(***************************************************************************)
(* Claims about ask_llm_for_json (checked under Spec)                      *)
(***************************************************************************)

\* C1: with max_retries >= 1 a call ends either by returning the value that
\* passed JSON parsing and schema validation, or by raising; it never
\* returns anything else (no None, no unvalidated value), and nothing is
\* returned or raised before it ends.
C1_ValidatedOrRaise ==
    max_retries >= 1 =>
        /\ pc # "done" => outcome = NoOutcome
        /\ pc = "done" =>
              \/ outcome.kind = "raise"
              \/ /\ outcome.kind = "return"
                 /\ outcome.value.type = "QAResponse"
                 /\ calls # <<>>
                 /\ calls[Len(calls)].fault = ""
                 /\ Conformant(calls[Len(calls)].response)
                 /\ outcome.value = ValueOf(calls[Len(calls)].response)

\* C1 witness: a call ended by returning the validated value of a response
\* that came wrapped in a fenced block.
C1_Witness ==
    /\ pc = "done"
    /\ max_retries >= 1
    /\ outcome.kind = "return"
    /\ Contains(raw, Fence)
    /\ outcome.value.citations # <<>>

\* C2: a first response that is valid JSON matching the schema, bare or
\* wrapped in a json-tagged or an untagged fenced block, is returned as its
\* typed value after exactly one completion-service call.
C2_FirstValidResponseReturns ==
    \A p \in ValidPayloads :
        (/\ calls # <<>>
         /\ calls[1].response \in Wrappings(p)
         /\ Processed(1))
        => /\ pc = "done"
           /\ Len(calls) = 1
           /\ outcome = Returned(QAResponse(JsonLoads(p).val))

\* C3: when the first conformant response is the k-th, the call returns the
\* value of that response after exactly k service calls and issues no call
\* after it.
C3_ReturnsAtFirstConformant ==
    \A k \in 1..Len(calls) :
        (calls[k].fault = "" /\ Conformant(calls[k].response) /\ Processed(k))
        => /\ k = Len(calls)
           /\ k <= max_retries
           /\ pc = "done"
           /\ outcome = Returned(ValueOf(calls[k].response))
           /\ \A j \in 1..(k - 1) : ~Conformant(calls[j].response)

\* C3 witness: malformed JSON at attempt 1, a valid response at attempt 2,
\* returned after exactly two calls.
C3_Witness ==
    /\ pc = "done"
    /\ outcome.kind = "return"
    /\ Len(calls) = 2
    /\ ~Parses(calls[1].response)
    /\ outcome.value = ValueOf(calls[2].response)

\* C4: the prompt of every call k >= 2 contains the error description
\* recorded for attempt k-1, verbatim, followed by the instruction to
\* return only corrected JSON.
C4_PromptCarriesPreviousError ==
    \A k \in 2..Len(calls) :
        \E i \in 1..(Len(calls[k].prompt) - 1) :
            /\ calls[k].prompt[i] = ErrChunk(ErrorOf(calls[k - 1].response))
            /\ calls[k].prompt[i + 1] = Lit(SuffixTail)

\* C4 witness: a second call was made after a schema validation error.
C4_Witness ==
    /\ Len(calls) = 2
    /\ Parses(calls[1].response)
    /\ ErrorOf(calls[1].response).errors # <<>>

\* C5: when all max_retries responses are non-conformant the call raises
\* the exhaustion failure after exactly max_retries service calls, with the
\* attempt count max_retries and the error description of the final attempt;
\* and the exhaustion failure is raised in no other situation.
C5_ExhaustionCarriesLastError ==
    /\ (/\ max_retries >= 1
        /\ Len(calls) = max_retries
        /\ \A k \in 1..Len(calls) :
              calls[k].fault = "" /\ ~Conformant(calls[k].response)
        /\ Processed(max_retries) /\ pc # "check")
       => /\ pc = "done"
          /\ outcome = Raised([cls |-> "ValueError", attempts |-> max_retries,
                               last_error |-> ErrorOf(calls[max_retries].response)])
    /\ outcome.exc.cls = "ValueError"
       => /\ Len(calls) = max_retries
          /\ \A k \in 1..Len(calls) :
                calls[k].fault = "" /\ ~Conformant(calls[k].response)

\* C5 witness: exhaustion after at least two attempts whose first and last
\* errors differ.
C5_Witness ==
    /\ pc = "done"
    /\ outcome.exc.cls = "ValueError"
    /\ max_retries >= 2
    /\ ErrorOf(calls[1].response) # ErrorOf(calls[max_retries].response)

\* C6: a fault of the completion service at any attempt leaves the call at
\* once as that fault: no later service call, no corrective prompt built
\* from it, no attempt consumed after it, and no exhaustion failure.
C6_FaultPropagates ==
    \A k \in 1..Len(calls) :
        calls[k].fault # ""
        => /\ k = Len(calls)
           /\ pc = "done"
           /\ outcome = Raised([cls |-> calls[k].fault, attempts |-> 0,
                                last_error |-> NoError])
           /\ current_prompt = calls[k].prompt
           /\ attempt = k - 1

\* C6 witness: the service faulted at the second attempt.
C6_Witness ==
    /\ Len(calls) = 2
    /\ calls[2].fault # ""
    /\ outcome.kind = "raise"

C8_RecoverableErrorsStayInside ==
    /\ [](outcome.kind = "raise" => outcome.exc.cls \in (Faults \cup {"ValueError"}))
    /\ [][(pc = "check" /\ attempt < max_retries - 1)
              => (pc' = "for" /\ outcome' = NoOutcome /\ attempt' = attempt)]_vars
    /\ [][(pc = "for" /\ attempt >= 0) => (pc' = "call" /\ attempt' = attempt + 1)]_vars

\* C8 witness: a further service call is about to be made after a schema
\* validation error.
C8_Witness ==
    /\ pc = "call"
    /\ attempt = 1
    /\ last_error.prefix = "Schema validation error: "

\* C11: a parsed payload without the answer field is rejected even though
\* its citations are present and well-formed: the attempt returns no value
\* and the error recorded for it is a schema validation error that names
\* the answer field as missing.
C11_MissingAnswerRejected ==
    \A k \in 1..Len(calls) :
        (calls[k].fault = "" /\ LacksOnlyAnswer(calls[k].response) /\ Processed(k))
        => /\ ~(k = Len(calls) /\ outcome.kind = "return")
           /\ k = Len(calls) =>
                 /\ last_error.prefix = "Schema validation error: "
                 /\ \E i \in 1..Len(last_error.errors) :
                        /\ last_error.errors[i].field = "answer"
                        /\ last_error.errors[i].type = "missing"
           /\ k < Len(calls) =>
                 \E i \in 1..Len(ErrorsIn(calls[k + 1].prompt)) :
                    \E j \in 1..Len(ErrorsIn(calls[k + 1].prompt)[i].errors) :
                        ErrorsIn(calls[k + 1].prompt)[i].errors[j].field = "answer"

\* C11 witness: the first response had citations but no answer and its
\* attempt ended in the error check.
C11_Witness ==
    /\ Len(calls) = 1
    /\ pc = "check"
    /\ LacksOnlyAnswer(calls[1].response)
    /\ last_error.errors # <<>>

\* C13: a failed attempt records one error, decided parse first: a JSON
\* decode error with the parser's message when the extracted text does not
\* parse (no validation lines), a schema validation error with the field
\* lines when it parses but does not conform.  last_error always describes
\* the most recent failed attempt: it is None until one fails and is
\* replaced by every later failure.
C13_OneErrorPerFailedAttempt ==
    LET n      == Len(calls)
        failed == {k \in 1..n : calls[k].fault = "" /\ Processed(k)
                                 /\ ~Conformant(calls[k].response)}
    IN  IF failed = {} THEN last_error = NoError
        ELSE LET r == calls[Max(failed)].response
             IN  /\ last_error = ErrorOf(r)
                 /\ ~Parses(r) => /\ last_error.prefix = "JSON decode error: "
                                  /\ last_error.msg # ""
                                  /\ last_error.errors = <<>>
                 /\ Parses(r) => /\ last_error.prefix = "Schema validation error: "
                                 /\ last_error.errors # <<>>

\* C13 witness: a parse error at attempt 1 was replaced by the schema
\* validation error of attempt 2.
C13_Witness ==
    /\ Len(calls) = 2
    /\ pc = "check"
    /\ ~Parses(calls[1].response)
    /\ Parses(calls[2].response)
    /\ last_error.prefix = "Schema validation error: "

\* C14: the corrective prompt is built from the current working prompt:
\* the prompt of call k >= 2 is the prompt of call k-1 followed by the
\* corrective suffix for attempt k-1, so it carries the errors of attempts
\* 1..k-1 in order and is strictly longer than the prompt before it.
C14_SuffixesCompound ==
    \A k \in 2..Len(calls) :
        /\ calls[k].prompt
              = calls[k - 1].prompt \o CorrectiveSuffix(ErrorOf(calls[k - 1].response))
        /\ ErrorsIn(calls[k].prompt) = [j \in 1..(k - 1) |-> ErrorOf(calls[j].response)]
        /\ Len(calls[k].prompt) > Len(calls[k - 1].prompt)

\* C14 witness: the third prompt carries a parse error followed by a
\* schema validation error.
C14_Witness ==
    /\ Len(calls) = 3
    /\ ~Parses(calls[1].response)
    /\ Parses(calls[2].response)
    /\ ErrorsIn(calls[3].prompt)
          = <<ErrorOf(calls[1].response), ErrorOf(calls[2].response)>>

\* C15: when every service call returns or faults, the call ends; it never
\* issues more than max_retries service calls; and calls are sequential: a
\* call is issued only from the call site, and after the first only when the
\* previous call returned a response that was found non-conformant.
C15_TerminatesWithinBudget ==
    /\ <>(pc = "done")
    /\ [](Len(calls) <= IF max_retries > 0 THEN max_retries ELSE 0)
    /\ [][calls' # calls =>
             /\ pc = "call"
             /\ Len(calls') = Len(calls) + 1
             /\ SubSeq(calls', 1, Len(calls)) = calls
             /\ calls # <<>> =>
                   /\ calls[Len(calls)].fault = ""
                   /\ ~Conformant(calls[Len(calls)].response)]_vars

\* C15 witness: a call that used its whole budget of at least two attempts
\* and ended.
C15_Witness ==
    /\ pc = "done"
    /\ max_retries >= 2
    /\ Len(calls) = max_retries
    /\ outcome.exc.cls = "ValueError"

\* C18: a parsed payload with a string answer and no citations field
\* conforms: its attempt returns, and the value returned has that answer
\* and an empty list of citations.
C18_CitationsDefaultToEmpty ==
    \A k \in 1..Len(calls) :
        (calls[k].fault = "" /\ AnswerWithoutCitations(calls[k].response)
                             /\ Processed(k))
        => /\ k = Len(calls)
           /\ pc = "done"
           /\ outcome.kind = "return"
           /\ outcome.value.type = "QAResponse"
           /\ outcome.value.answer = GetKey(Data[calls[k].response].val.v, KeyAnswer).v
           /\ outcome.value.citations = <<>>

\* C18 witness: a call returned a result without citations.
C18_Witness ==
    /\ pc = "done"
    /\ outcome.kind = "return"
    /\ outcome.value.answer # <<>>
    /\ outcome.value.citations = <<>>

\* C19: with max_retries <= 0 no service call is made and nothing is
\* raised; the loop body is never entered and the call returns None.
C19_EmptyBudgetReturnsNone ==
    max_retries <= 0 =>
        /\ calls = <<>>
        /\ pc \in {"for", "done"}
        /\ outcome.kind # "raise"
        /\ pc = "done" => outcome = Returned(PyNone)

\* C19 witness: a call with max_retries = 0 ended by returning None.
C19_Witness ==
    /\ max_retries = 0
    /\ pc = "done"
    /\ outcome = Returned(PyNone)
    /\ calls = <<>>

\* C20: the first service call gets exactly the caller's prompt, every
\* later call a prompt that starts with it; every call gets the caller's
\* model identifier; and no step changes the caller's prompt, the model
\* identifier or max_retries.
C20_ArgumentsUnchanged ==
    /\ [](\A k \in 1..Len(calls) :
             /\ calls[k].model = model
             /\ k = 1 => calls[k].prompt = prompt
             /\ Len(calls[k].prompt) >= Len(prompt)
             /\ SubSeq(calls[k].prompt, 1, Len(prompt)) = prompt)
    /\ [][prompt' = prompt /\ model' = model /\ max_retries' = max_retries]_vars

\* C20 witness: a second call was made for a caller who asked for a model
\* other than the client's default.
C20_Witness ==
    /\ Len(calls) = 2
    /\ model = "mistral"
    /\ calls[2].model = "mistral"
    /\ Len(calls[2].prompt) > Len(prompt)

(***************************************************************************)
(* Claims about concurrent callers (checked under SpecConc)                *)
(***************************************************************************)
\* the prompt a caller sends after n failed attempts, from its own prompt
\* p0 and the responses of its own calls cs
RECURSIVE PromptAfter(_, _, _)
PromptAfter(p0, cs, n) ==
    IF n = 0 THEN p0
    ELSE PromptAfter(p0, cs, n - 1) \o CorrectiveSuffix(ErrorOf(cs[n].response))

\* how a call with the given budget ends after the service calls cs
OutcomeAfter(budget, cs) ==
    IF cs = <<>> THEN Returned(PyNone)
    ELSE LET c == cs[Len(cs)]
         IN  IF c.fault # ""
             THEN Raised([cls |-> c.fault, attempts |-> 0, last_error |-> NoError])
             ELSE IF Conformant(c.response) THEN Returned(ValueOf(c.response))
             ELSE Raised([cls |-> "ValueError", attempts |-> budget,
                          last_error |-> ErrorOf(c.response)])

\* the service call k of cs ends the call of ask_llm_for_json
Ends(cs, k) == cs[k].fault # "" \/ Conformant(cs[k].response)

\* C12: concurrent resolutions are independent: whatever the interleaving,
\* every prompt a caller sends, its number of service calls, its error state
\* and its outcome are those its own prompt, budget and responses determine.
C12_ResolutionsIndependent ==
    \A p \in Procs :
        LET f == res[p]
            n == Len(f.calls)
            failed == {k \in 1..n : ~Ends(f.calls, k) /\
                                      (k < n \/ f.pc \notin {"extract", "try"})}
        IN  /\ n <= f.max_retries
            /\ \A k \in 1..n :
                   /\ f.calls[k].prompt = PromptAfter(f.prompt, f.calls, k - 1)
                   /\ f.calls[k].model = f.model
                   /\ k < n => ~Ends(f.calls, k)
            /\ f.last_error = IF failed = {} THEN NoError
                               ELSE ErrorOf(f.calls[Max(failed)].response)
            /\ f.pc = "done" =>
                   /\ f.outcome = OutcomeAfter(f.max_retries, f.calls)
                   /\ n = f.max_retries \/ (n > 0 /\ Ends(f.calls, n))
            /\ f.pc # "done" => f.outcome = NoOutcome

\* C12 witness: caller 1 has sent its second prompt while caller 2, asked
\* another question, stood between a failed attempt and its retry with a
\* different error; caller 1's second response is in and caller 2 has still
\* not moved.
C12_Witness ==
    /\ res[1].prompt # res[2].prompt
    /\ Len(res[1].calls) = 2
    /\ res[1].pc = "check"
    /\ Len(res[2].calls) = 1
    /\ res[2].pc = "check"
    /\ res[2].max_retries = 2
    /\ res[2].last_error # ErrorOf(res[1].calls[1].response)
    /\ res[2].last_error # res[1].last_error

(***************************************************************************)
(* Claims about the extractor (checked under SpecExtract)                  *)
(***************************************************************************)

\* C9: extractor idempotence: applying _extract_json to its own output
\* returns that output unchanged, for every input text.
C9_ExtractorIdempotent == xpc = "twice" => twice = once

\* C9 witness: a text with a complete fenced block was extracted twice and
\* the first pass did strip something.
C9_Witness ==
    /\ xpc = "twice"
    /\ PlainBlocks(text) # {}
    /\ once # text
    /\ once # <<>>

\* C10: extractor precedence: when the text holds both a json-tagged block
\* and a plain block, in either order, the result is the trimmed interior
\* of the first json-tagged block.
C10_TaggedBlockWins ==
    (xpc # "input" /\ JsonBlocks(text) # {} /\ PlainBlocks(text) # {})
        => once = Strip(FirstJsonInterior(text))

\* C10 witness: a plain block that closes before the json-tagged block
\* opens, and the tagged block's (non-empty) interior was returned.
C10_Witness ==
    /\ xpc = "once"
    /\ \E p \in PlainBlocks(text) : \E q \in JsonBlocks(text) :
           p[2] + Len(Fence) <= q[1]
    /\ once # <<>>
    /\ once = Strip(FirstJsonInterior(text))

\* C16: when the text holds no json-tagged block but at least one plain
\* block, whose opening fence may carry another language tag, the result is
\* the trimmed interior of the first plain block.
C16_FirstGenericInterior ==
    (xpc # "input" /\ JsonBlocks(text) = {} /\ PlainBlocks(text) # {})
        => once = Strip(FirstPlainInterior(text))

\* C17: the extractor returns a text for every input, made of characters of
\* the input; when the input holds no complete fenced block the result is
\* the whole input trimmed.
C17_NoBlockReturnsTrimmedText ==
    xpc # "input" =>
        /\ Len(once) <= Len(text)
        /\ \A k \in 1..Len(once) : \E n \in 1..Len(text) : text[n] = once[k]
        /\ (JsonBlocks(text) = {} /\ PlainBlocks(text) = {}) => once = Strip(text)

\* C17 witness: an opening json-tagged fence that is never closed, in a text
\* with whitespace around it; the whole text came back trimmed.
C17_Witness ==
    /\ xpc = "once"
    /\ Contains(text, JsonFence)
    /\ JsonBlocks(text) = {}
    /\ PlainBlocks(text) = {}
    /\ once = Strip(text)
    /\ once # text

====
